---- MODULE Spec2Model ----
(***************************************************************************)
(* Model of the FTC Platform MCP gateway (src/src/server.ts and the        *)
(* upstream client lib/api-client).  The HTTP router keeps a map from      *)
(* session identifiers to transports (session contexts); each context      *)
(* owns a protocol server whose tool handlers call the upstream client.    *)
(***************************************************************************)
EXTENDS Integers, Sequences, FiniteSets, TLC

\* ------------------------------------------------------------------ bounds
\* number of values randomUUID() can be asked for (sessions ever initialized)
MaxSessions == 2
\* number of transports the router can construct (initialize requests served)
MaxContexts == 2
\* number of requests whose handlers can be in flight at once
MaxClients == 2
\* number of outbound requests counted for one invocation
MaxFetches == 2
\* number of peers (client addresses) that send requests
MaxPeers == 2

\* ------------------------------------------------------------- JSON values
\* A JSON value of the arguments mapping: its JavaScript type and its text.
JsUndefined == [t |-> "undefined", v |-> ""]
JsNull == [t |-> "null", v |-> ""]
JsString(s) == [t |-> "string", v |-> s]
JsNumber(s) == [t |-> "number", v |-> s]
\* An object, named by an identifier; Members gives what it holds.
JsObject(id) == [t |-> "object", v |-> id]

\* The members of the objects the upstream sends as `data`, as name/value
\* pairs: the payload of an event tool, the payload of /test as
\* TestConnectionData declares it, and one that also has a `version` member.
Members(id) ==
    CASE id = "payload-1" -> << <<"total", "3">> >>
      [] id = "probe-1"   -> << <<"success", "true">>,
                                <<"message", "API connection successful">>,
                                <<"timestamp", "2025-06-01T12:00:00.000Z">> >>
      [] id = "probe-2"   -> << <<"success", "true">>,
                                <<"message", "API connection successful">>,
                                <<"timestamp", "2025-06-01T12:00:00.000Z">>,
                                <<"version", "2.3.0">> >>
      [] OTHER            -> << >>

\* JavaScript truthiness, as used by `if (!eventId)`.
Truthy(x) ==
    CASE x.t = "undefined" -> FALSE
      [] x.t = "null"      -> FALSE
      [] x.t = "string"    -> x.v # ""
      [] x.t = "number"    -> x.v \notin {"0", "NaN"}
      [] OTHER             -> TRUE

\* The arguments of a tools/call request.  "absent" is a request without an
\* arguments member (args is undefined); a mapping has an eventId member or
\* not, and possibly a member no tool declares.
NoArgs == [present |-> FALSE, eventId |-> JsUndefined, extra |-> FALSE]
ArgsOf(e, x) == [present |-> TRUE, eventId |-> e, extra |-> x]

EventIdValues ==
    {JsUndefined, JsNull, JsString(""), JsString("evt-1"), JsNumber("42"), JsNumber("0")}

ArgValues ==
    {NoArgs} \cup {ArgsOf(e, FALSE) : e \in EventIdValues}
             \cup {ArgsOf(JsString("evt-1"), TRUE), ArgsOf(JsUndefined, TRUE)}

\* ------------------------------------------------------------ tool registry
\* A registry that advertises a tool the dispatcher has no case for.
ListTools_Extra ==
    << [name |-> "test_connection",           required |-> << >>],
       [name |-> "get_event_applications",    required |-> <<"eventId">>],
       [name |-> "get_event_evaluations",     required |-> <<"eventId">>],
       [name |-> "get_evaluation_criteria",   required |-> <<"eventId">>],
       [name |-> "get_application_questions", required |-> <<"eventId">>],
       [name |-> "delete_event",              required |-> <<"eventId">>] >>

\* The descriptors returned by the ListTools handler, in order.
ListTools ==
    << [name |-> "test_connection",           required |-> << >>],
       [name |-> "get_event_applications",    required |-> <<"eventId">>],
       [name |-> "get_event_evaluations",     required |-> <<"eventId">>],
       [name |-> "get_evaluation_criteria",   required |-> <<"eventId">>],
       [name |-> "get_application_questions", required |-> <<"eventId">>] >>

\* A handler whose answer depends on the session it is asked on.
ListToolsHandler_PerSession(k) == IF k = 1 THEN ListTools ELSE SubSeq(ListTools, 2, 5)

\* server.setRequestHandler(ListToolsRequestSchema, async () => ({ tools: [...] })),
\* as registered on the protocol server of context k: a literal.
ListToolsHandler(k) == ListTools

RegisteredNames == {ListTools[i].name : i \in DOMAIN ListTools}

EventIdTools == {ListTools[i].name : i \in {j \in DOMAIN ListTools :
                                              ListTools[j].required = <<"eventId">>}}

\* Tool names a client may send: the registered ones and two that are not.
ToolNames == RegisteredNames \cup {"delete_event", "Test_Connection"}

\* ------------------------------------------------------------ thrown values
\* An exception: whether it is an Error object, and its message as the
\* sequence of the pieces the template literal concatenates.
ErrorOf(msg) == [isErrorObject |-> TRUE, message |-> msg]

Mentions(msg, word) == \E i \in DOMAIN msg : msg[i] = word

Throw(e) == [threw |-> TRUE, error |-> e, value |-> ""]
Return(v) == [threw |-> FALSE, error |-> ErrorOf(<< >>), value |-> v]

\* ---------------------------------------------------------- upstream client
\* What the network gives back to one fetch: no response at all, a response
\* whose status is not 2xx, a body that is not JSON, or a JSON body with the
\* members of ApiResponse (absent members are undefined).
Reply(reached, ok, parses, success, error, details, data) ==
    [reached |-> reached, ok |-> ok, parses |-> parses, success |-> success,
     error |-> error, details |-> details, data |-> data]

ReplyData == Reply(TRUE, TRUE, TRUE, TRUE, JsUndefined, JsUndefined, JsObject("payload-1"))
ReplyProbe == Reply(TRUE, TRUE, TRUE, TRUE, JsUndefined, JsUndefined, JsObject("probe-1"))
ReplyProbeVersioned ==
    Reply(TRUE, TRUE, TRUE, TRUE, JsUndefined, JsUndefined, JsObject("probe-2"))
ReplyNetworkDown == Reply(FALSE, FALSE, FALSE, FALSE, JsUndefined, JsUndefined, JsUndefined)
ReplyHttp500 == Reply(TRUE, FALSE, FALSE, FALSE, JsUndefined, JsUndefined, JsUndefined)
ReplyNotJson == Reply(TRUE, TRUE, FALSE, FALSE, JsUndefined, JsUndefined, JsUndefined)
ReplyRefused ==
    Reply(TRUE, TRUE, TRUE, FALSE, JsString("Event not found"), JsUndefined, JsUndefined)
ReplyFailedBare == Reply(TRUE, TRUE, TRUE, FALSE, JsUndefined, JsUndefined, JsUndefined)
ReplyNoData == Reply(TRUE, TRUE, TRUE, TRUE, JsUndefined, JsUndefined, JsUndefined)

Replies ==
    {ReplyData, ReplyProbe, ReplyProbeVersioned, ReplyNetworkDown, ReplyHttp500,
     ReplyNotJson, ReplyRefused, ReplyFailedBare, ReplyNoData}

\* `x ?? fallback`
Nullish(x, fallback) == IF x.t = "undefined" THEN fallback ELSE x.v

\* VercelApiClient.makeRequest, from the point where fetch settles.
makeRequest(endpoint, r) ==
    IF ~r.reached
      THEN Throw(ErrorOf(<<"request to ">> \o endpoint \o <<" failed, reason: ", "ECONNREFUSED">>))
    ELSE IF ~r.ok
      THEN Throw(ErrorOf(<<"API request failed: ", "500", " ", "Internal Server Error",
                           "\nResponse: ", "upstream exploded">>))
    ELSE IF ~r.parses
      THEN Throw(ErrorOf(<<"invalid json response body at ">> \o endpoint))
    ELSE IF ~r.success
      THEN Throw(ErrorOf(<<"API returned error: ", Nullish(r.error, "Unknown error"),
                           "\nDetails: ", Nullish(r.details, "No details")>>))
    ELSE IF ~Truthy(r.data)
      THEN Throw(ErrorOf(<<"API returned success but no data">>))
    ELSE Return(r.data.v)

\* The operation of the upstream client behind each tool, and its endpoint.
Endpoint(tool, eventId) ==
    CASE tool = "test_connection"           -> <<"/test">>
      [] tool = "get_event_applications"    -> <<"/events/", eventId.v, "/applications">>
      [] tool = "get_event_evaluations"     -> <<"/events/", eventId.v, "/evaluations">>
      [] tool = "get_evaluation_criteria"   -> <<"/events/", eventId.v, "/criteria">>
      [] tool = "get_application_questions" -> <<"/events/", eventId.v, "/questions">>

\* testConnection / getEventApplications .. getApplicationQuestions, up to the
\* call of makeRequest: the client's own guard on eventId, then the fetch.
\* fetch |-> TRUE means an outbound request was issued.
ClientOperation(tool, eventId) ==
    IF tool \in EventIdTools /\ ~Truthy(eventId)
      THEN [fetch |-> FALSE, endpoint |-> << >>,
            error |-> ErrorOf(<<"eventId", " is required">>)]
      ELSE [fetch |-> TRUE, endpoint |-> Endpoint(tool, eventId),
            error |-> ErrorOf(<< >>)]

\* A client that issues the request again when an attempt has failed.
Retries_OnFailure(out) == out.threw

\* Whether the request is issued again once an attempt has settled with
\* outcome `out`: makeRequest has one fetch and no loop around it, and the
\* handler's catch block returns without calling the client again.
Retries(out) == FALSE

\* getStatus()
getStatus(baseUrl, apiKey) ==
    [configured |-> (baseUrl # "" /\ apiKey # ""),
     baseUrl |-> baseUrl,
     hasApiKey |-> (apiKey # "")]

\* ----------------------------------------------------------- tool dispatcher
NowISO == "2026-01-01T00:00:00.000Z"

NoExtras ==
    [present |-> FALSE, mcpServer |-> "", version |-> "", apiClient |-> getStatus("", "")]

\* The object handed to JSON.stringify in the catch block.
FailureText(message, name) ==
    [success |-> "false", error |-> message, tool |-> name, timestamp |-> NowISO,
     details |-> <<"Failed to execute MCP tool: ", name>>,
     payload |-> "", extras |-> NoExtras]

\* The object handed to JSON.stringify on success: the upstream payload, and
\* for test_connection the members added after the spread.
SuccessText(payload, extras) ==
    [success |-> "", error |-> << >>, tool |-> "", timestamp |-> "",
     details |-> << >>, payload |-> payload, extras |-> extras]

\* An object literal without the spread: the payload's members are left out.
SpreadMember_Replaced(text, name) ==
    CASE name = "mcpServer" -> text.extras.mcpServer
      [] name = "version"   -> text.extras.version
      [] name = "apiClient" -> "[object]"
      [] OTHER              -> ""

\* The value of member `name` of the object handed to JSON.stringify on
\* success, "" when it has none: { ...result, mcpServer, version, apiClient }
\* for test_connection (a member written after the spread replaces the one
\* the spread copied), the payload itself for the other tools.
SpreadMember(text, name) ==
    IF text.extras.present /\ name = "mcpServer" THEN text.extras.mcpServer
    ELSE IF text.extras.present /\ name = "version" THEN text.extras.version
    ELSE IF text.extras.present /\ name = "apiClient" THEN "[object]"
    ELSE LET members == Members(text.payload)
             hits == {i \in DOMAIN members : members[i][1] = name}
         IN  IF hits = {} THEN "" ELSE members[CHOOSE i \in hits : TRUE][2]

NoResult == [returned |-> FALSE, isError |-> FALSE, text |-> SuccessText("", NoExtras)]
ToolResult(isError, text) == [returned |-> TRUE, isError |-> isError, text |-> text]

\* A catch block that reports the failure without the error tag.
CallToolCatch_Untagged(name, error) ==
    [returned |-> TRUE, isError |-> FALSE,
     text |-> FailureText(IF error.isErrorObject THEN error.message
                                                 ELSE <<"Unknown error occurred">>,
                          name)]

\* A catch block that throws the error on instead of returning a result.
CallToolCatch_Rethrows(name, error) == NoResult

\* catch (error) { ... return { content: [...], isError: true } }
CallToolCatch(name, error) ==
    ToolResult(TRUE,
               FailureText(IF error.isErrorObject THEN error.message
                                                  ELSE <<"Unknown error occurred">>,
                           name))

\* A return that tags the success payload as an error as well.
CallToolReturn_Both(name, payload, status) ==
    ToolResult(TRUE, [SuccessText(payload, NoExtras) EXCEPT !.error = <<"failed">>])

\* return { content: [{ type: "text", text: JSON.stringify(...) }] }
CallToolReturn(name, payload, status) ==
    IF name = "test_connection"
      THEN ToolResult(FALSE,
                      SuccessText(payload,
                                  [present |-> TRUE, mcpServer |-> "ftc-platform-mcp",
                                   version |-> "1.0.0", apiClient |-> status]))
      ELSE ToolResult(FALSE, SuccessText(payload, NoExtras))

\* What the handler has done when it reaches its first await or its catch:
\* thrown before any call of the upstream client, or called one operation of it.
Thrown(e) ==
    [threw |-> TRUE, error |-> e, called |-> FALSE, operation |-> "",
     eventId |-> JsUndefined]
Called(tool, eventId) ==
    [threw |-> FALSE, error |-> ErrorOf(<< >>), called |-> TRUE, operation |-> tool,
     eventId |-> eventId]

\* A case that leaves the test of eventId to the upstream client.
RequireEventId_Unchecked(name, args) ==
    IF ~args.present
      THEN Thrown(ErrorOf(<<"Cannot destructure property '", "eventId",
                            "' of 'args' as it is undefined.">>))
      ELSE Called(name, args.eventId)

\* const { eventId } = args as { eventId: string }; if (!eventId) throw ...
RequireEventId(name, args) ==
    IF ~args.present
      THEN Thrown(ErrorOf(<<"Cannot destructure property '", "eventId",
                            "' of 'args' as it is undefined.">>))
    ELSE IF ~Truthy(args.eventId)
      THEN Thrown(ErrorOf(<<"eventId", " is required">>))
    ELSE Called(name, args.eventId)

\* A switch whose default case runs the probe instead of throwing.
CallToolSwitch_DefaultProbe(name, args) ==
    CASE name = "get_event_applications"    -> RequireEventId(name, args)
      [] name = "get_event_evaluations"     -> RequireEventId(name, args)
      [] name = "get_evaluation_criteria"   -> RequireEventId(name, args)
      [] name = "get_application_questions" -> RequireEventId(name, args)
      [] OTHER -> Called("test_connection", JsUndefined)

\* switch (name) { case ...: ... default: throw new Error(`Unknown tool: ${name}`) }
CallToolSwitch(name, args) ==
    CASE name = "test_connection"           -> Called(name, JsUndefined)
      [] name = "get_event_applications"    -> RequireEventId(name, args)
      [] name = "get_event_evaluations"     -> RequireEventId(name, args)
      [] name = "get_evaluation_criteria"   -> RequireEventId(name, args)
      [] name = "get_application_questions" -> RequireEventId(name, args)
      [] OTHER -> Thrown(ErrorOf(<<"Unknown tool: ", name>>))

\* ------------------------------------------- tool dispatcher, stdio server
\* The handlers the stdio server registers on its one protocol server.  It
\* imports the same upstream client (ClientOperation, makeRequest, getStatus).
StdioNowISO == "2026-01-01T00:00:01.000Z"

\* server.setRequestHandler(ListToolsRequestSchema, async () => ({ tools: [...] }))
StdioListTools ==
    << [name |-> "test_connection",           required |-> << >>],
       [name |-> "get_event_applications",    required |-> <<"eventId">>],
       [name |-> "get_event_evaluations",     required |-> <<"eventId">>],
       [name |-> "get_evaluation_criteria",   required |-> <<"eventId">>],
       [name |-> "get_application_questions", required |-> <<"eventId">>] >>

\* catch (error) { return { content: [...], isError: true } }
StdioCallToolCatch(name, error) ==
    ToolResult(TRUE,
               [success |-> "false",
                error |-> IF error.isErrorObject THEN error.message
                                                 ELSE <<"Unknown error occurred">>,
                tool |-> name, timestamp |-> StdioNowISO,
                details |-> <<"Failed to execute MCP tool: ", name>>,
                payload |-> "", extras |-> NoExtras])

\* A return that leaves out the members test_connection adds to the payload.
StdioCallToolReturn_Plain(name, payload, status) ==
    ToolResult(FALSE, SuccessText(payload, NoExtras))

\* return { content: [{ type: "text", text: JSON.stringify(...) }] }
StdioCallToolReturn(name, payload, status) ==
    IF name = "test_connection"
      THEN ToolResult(FALSE,
                      SuccessText(payload,
                                  [present |-> TRUE, mcpServer |-> "ftc-platform-mcp",
                                   version |-> "1.0.0", apiClient |-> status]))
      ELSE ToolResult(FALSE, SuccessText(payload, NoExtras))

\* const { eventId } = args as { eventId: string }; if (!eventId) throw ...
StdioRequireEventId(name, args) ==
    IF ~args.present
      THEN Thrown(ErrorOf(<<"Cannot destructure property '", "eventId",
                            "' of 'args' as it is undefined.">>))
    ELSE IF ~Truthy(args.eventId)
      THEN Thrown(ErrorOf(<<"eventId", " is required">>))
    ELSE Called(name, args.eventId)

\* switch (name) { case ...: ... default: throw new Error(`Unknown tool: ${name}`) }
StdioCallToolSwitch(name, args) ==
    CASE name = "test_connection"           -> Called(name, JsUndefined)
      [] name = "get_event_applications"    -> StdioRequireEventId(name, args)
      [] name = "get_event_evaluations"     -> StdioRequireEventId(name, args)
      [] name = "get_evaluation_criteria"   -> StdioRequireEventId(name, args)
      [] name = "get_application_questions" -> StdioRequireEventId(name, args)
      [] OTHER -> Thrown(ErrorOf(<<"Unknown tool: ", name>>))

\* The CallTool handler of the stdio server from its call to its return, the
\* upstream answering r to the request it issues (if it issues one): the
\* operation it called, the request and the result.
StdioCallTool(name, args, r, status) ==
    LET start == StdioCallToolSwitch(name, args)
        op == ClientOperation(start.operation, start.eventId)
        out == makeRequest(op.endpoint, r) IN
    IF start.threw
      THEN [operations |-> 0, fetches |-> 0, endpoint |-> << >>,
            result |-> StdioCallToolCatch(name, start.error)]
    ELSE IF ~op.fetch
      THEN [operations |-> 1, fetches |-> 0, endpoint |-> << >>,
            result |-> StdioCallToolCatch(name, op.error)]
    ELSE [operations |-> 1, fetches |-> 1, endpoint |-> op.endpoint,
          result |-> IF out.threw THEN StdioCallToolCatch(name, out.error)
                                  ELSE StdioCallToolReturn(name, out.value, status)]

\* ------------------------------------------------------------------- state
VARIABLES
    phase,        \* "failed", "serving", "closing", "cleared", "exited" or "crashed"
    apiClient,    \* the VercelApiClient: [baseUrl, apiKey]
    transports,   \* this.transports: session identifier -> context
    contexts,     \* every transport (with its protocol server) the router made
    uuids,        \* how many identifiers randomUUID() has produced
    inflight,     \* per client connection, the request it is waiting for
    done,         \* the exchange that has just completed, before it is delivered
    wire          \* what the requests carried that no handler reads (see NoWire)

vars == <<phase, apiClient, transports, contexts, uuids, inflight, done, wire>>

Clients == 1..MaxClients
ContextIds == 1..MaxContexts
SessionIds == 1..MaxSessions

\* The mcp-session-id header: absent (or empty, which is as falsy), or a value.
NoSessionId == 0
HeaderValues == {NoSessionId} \cup SessionIds

\* The requests a client sends: the method and what req.body holds once
\* express.json() has parsed it ("" is a request without a body).
Methods == {"POST", "GET", "DELETE"}
Bodies == {"initialize", "tools/list", "tools/call", ""}
Requests == {q \in Methods \X Bodies : q[2] = "" => q[1] # "POST"}

\* isInitializeRequest(req.body)
isInitializeRequest(body) == body = "initialize"

\* A context: the transport object and the protocol server connected to it.
NoContext == 0
Unmade == [made |-> FALSE, sessionId |-> NoSessionId, closed |-> FALSE, madeFor |-> ""]

\* process.env at startup: a variable is unset, empty or set.  A base URL
\* that is set to a non-empty value takes the path of the default one.
EnvBaseUrl == {JsUndefined, JsString("")}
EnvApiKey == {JsUndefined, JsString(""), JsString("secret")}

\* process.env.VERCEL_API_BASE_URL ?? 'http://localhost:3000/api/mastra'
DefaultBaseUrl == "http://localhost:3000/api/mastra"

\* new VercelApiClient(): the fields, and whether the constructor throws.
VercelApiClient(envUrl, envKey) ==
    [baseUrl |-> Nullish(envUrl, DefaultBaseUrl),
     apiKey |-> Nullish(envKey, "")]
ConstructorThrows(client) == client.apiKey = ""

\* A validation that lets every configuration pass.
validateConfiguration_Lenient(client) == TRUE

\* validateConfiguration(): throws when the status is not configured.
validateConfiguration(client) == getStatus(client.baseUrl, client.apiKey).configured

\* What a request carries that no handler of the server reads: the peer it
\* comes from (its address) and its Authorization header.  The server keeps
\* none of it; it is recorded here for the request each connection is
\* handling, for the exchange that has just completed, for the request whose
\* handshake made each context, and as the number of requests the peer has
\* sent in the current window.  Only the specifications about the callers
\* (SpecWire, SpecRate) record it.
Peers == 1..MaxPeers
NoPeer == 0

\* The documented limit: 100 requests per 15-minute window per IP.
RateLimitMax == 100

\* process.env.MCP_CLIENT_TOKEN, set: the token the clients are given.
McpClientToken == "client-token"

\* The Authorization header of a request: absent, or `Bearer <token>`.
NoAuthorization == [scheme |-> "", token |-> ""]
Bearer(token) == [scheme |-> "Bearer", token |-> token]
AuthValues == {NoAuthorization, Bearer("wrong-token"), Bearer(McpClientToken)}

\* Peer 1 is the client that was given the token and sends it; the other
\* peers send no header or a token of their own.
NoSender == [peer |-> NoPeer, authorization |-> NoAuthorization]
Senders ==
    {s \in [peer : Peers, authorization : AuthValues] :
        s.peer = 1 <=> s.authorization = Bearer(McpClientToken)}
NoWire ==
    [slot |-> [c \in 1..MaxClients |-> NoSender],
     last |-> NoSender,
     owner |-> [k \in 1..MaxContexts |-> NoSender],
     served |-> 0]

IdleSlot ==
    [pc |-> "idle", sid |-> NoSessionId, ctx |-> NoContext, tool |-> "", args |-> NoArgs,
     eventId |-> JsUndefined, endpoint |-> << >>, fetches |-> 0]

NoExchange ==
    [client |-> 0, path |-> "", method |-> "", sid |-> NoSessionId, body |-> "",
     outcome |-> "",
     status |-> 0, code |-> 0, message |-> "", ctx |-> NoContext, created |-> NoContext,
     session |-> NoSessionId, reply |-> "", listed |-> << >>, tool |-> "",
     args |-> NoArgs, eventId |-> JsUndefined, operations |-> 0, fetches |-> 0,
     endpoint |-> << >>, upstream |-> ReplyNetworkDown, result |-> NoResult,
     delivered |-> FALSE, activeSessions |-> 0, members |-> {},
     apiStatus |-> getStatus("", "")]

\* An exchange has completed and its response is being written.
Answered == done.client # 0

Init ==
    \E envUrl \in EnvBaseUrl, envKey \in EnvApiKey :
        LET client == VercelApiClient(envUrl, envKey) IN
        /\ apiClient = client
        /\ phase = IF ConstructorThrows(client) \/ ~validateConfiguration(client)
                     THEN "failed" ELSE "serving"
        /\ transports = [x \in SessionIds |-> NoContext]
        /\ contexts = [k \in ContextIds |-> Unmade]
        /\ uuids = 0
        /\ inflight = [c \in Clients |-> IdleSlot]
        /\ done = NoExchange
        /\ wire = NoWire

\* -------------------------------------------------------------- session map
Live == {x \in SessionIds : transports[x] # NoContext}

\* sessionId ? this.transports.get(sessionId) : undefined
Lookup(map, sid) == IF sid # NoSessionId /\ sid \in SessionIds THEN map[sid] ELSE NoContext

\* A set that drops every other entry.
MapSet_Evicts(map, sid, k) == [x \in SessionIds |-> IF x = sid THEN k ELSE NoContext]

\* this.transports.set(newSessionId, transport)
MapSet(map, sid, k) == [map EXCEPT ![sid] = k]

\* this.transports.delete(sessionId)
MapDelete(map, sid) == [map EXCEPT ![sid] = NoContext]

\* this.transports.clear()
MapClear(map) == [x \in SessionIds |-> NoContext]

\* A generator that hands out the same identifier twice.
sessionIdGenerator_Repeats(n) == 1

\* sessionIdGenerator: () => randomUUID().  The n-th identifier asked for is a
\* value never produced before.
sessionIdGenerator(n) == n + 1

\* A callback that forgets to register the transport.
onsessioninitialized_Forgets(map, newSessionId, k) == map

\* onsessioninitialized: (newSessionId) => { if (transport) this.transports.set(...) }
onsessioninitialized(map, newSessionId, k) ==
    IF k # NoContext THEN MapSet(map, newSessionId, k) ELSE map

\* A close handler that empties the map.
onclose_Clears(map, context) == MapClear(map)

\* A close handler that leaves the entry in the map.
onclose_Keeps(map, context) == map

\* transport.onclose = () => { if (transport?.sessionId) this.transports.delete(...) }
onclose(map, context) ==
    IF context.sessionId # NoSessionId THEN MapDelete(map, context.sessionId) ELSE map

\* ------------------------------------------------------------------ router
\* A router that tests for an initialize request before it looks at the
\* transport it found.
Route_InitFirst(found, sid, method, body) ==
    IF method = "POST" /\ isInitializeRequest(body) THEN "create"
    ELSE IF ~found /\ sid # NoSessionId THEN "SessionInvalid"
    ELSE IF ~found THEN "SessionMissing"
    ELSE "forward"

\* A router that makes a transport for any POST without a live session.
Route_AnyPost(found, sid, method, body) ==
    IF ~found /\ method = "POST" THEN "create"
    ELSE IF ~found /\ sid # NoSessionId THEN "SessionInvalid"
    ELSE IF ~found THEN "SessionMissing"
    ELSE "forward"

\* A router whose two 400 branches test the header the wrong way round.
Route_Swapped(found, sid, method, body) ==
    IF ~found /\ method = "POST" /\ isInitializeRequest(body) THEN "create"
    ELSE IF ~found /\ sid = NoSessionId THEN "SessionInvalid"
    ELSE IF ~found THEN "SessionMissing"
    ELSE "forward"

\* The branch the /mcp handler takes once it has looked the session up.
Route(found, sid, method, body) ==
    IF ~found /\ method = "POST" /\ isInitializeRequest(body) THEN "create"
    ELSE IF ~found /\ sid # NoSessionId THEN "SessionInvalid"
    ELSE IF ~found THEN "SessionMissing"
    ELSE "forward"

Exchange(c, method, sid, body) ==
    [NoExchange EXCEPT !.client = c, !.path = "/mcp", !.method = method, !.sid = sid,
                       !.body = body, !.delivered = TRUE]

\* res.status(400).json({ error: { code: -32000, message: 'Invalid session ID ...' } })
SessionInvalid(x) ==
    [x EXCEPT !.outcome = "SessionInvalid", !.status = 400, !.code = -32000,
              !.message = "Invalid session ID or session expired"]

\* res.status(400).json({ error: { code: -32000, message: 'No session ID provided ...' } })
SessionMissing(x) ==
    [x EXCEPT !.outcome = "SessionMissing", !.status = 400, !.code = -32000,
              !.message = "No session ID provided. Initialize first."]

\* A catch block that answers 500 without the JSON-RPC error.
InternalError_Bare(x) == [x EXCEPT !.outcome = "InternalError", !.status = 500]

\* catch (error) of the /mcp handler:
\* res.status(500).json({ error: { code: -32603, message: 'Internal error', ... } })
InternalError(x) ==
    [x EXCEPT !.outcome = "InternalError", !.status = 500, !.code = -32603,
              !.message = "Internal error"]

\* this.transports.size
MapSize(map) == Cardinality({x \in SessionIds : map[x] # NoContext})

\* What transport.handleRequest produced for a request forwarded to context k.
Forwarded(x, k, status, reply) ==
    [x EXCEPT !.outcome = "forwarded", !.ctx = k, !.status = status, !.reply = reply]

NextContext == CHOOSE k \in ContextIds : ~contexts[k].made /\
                                        \A j \in ContextIds : j < k => contexts[j].made

Connecting == {c \in Clients : inflight[c].pc = "connecting"}

Serving == phase \in {"serving", "closing"}
Running == phase \in {"serving", "closing", "cleared"}

\* The invocations and the upstream replies tried where sessions, shutdown and
\* several connections interleave; the dispatcher on its own is run on every
\* name, arguments mapping and reply (SpecDispatch below).
SessionCalls ==
    {<<"test_connection", ArgsOf(JsUndefined, FALSE)>>,
     <<"get_event_applications", ArgsOf(JsString("evt-1"), FALSE)>>,
     <<"get_event_applications", ArgsOf(JsUndefined, FALSE)>>,
     <<"get_event_evaluations", NoArgs>>,
     <<"delete_event", ArgsOf(JsString("evt-1"), FALSE)>>}

SessionReplies == {ReplyData, ReplyHttp500}

\* ----------------------------------------------------------------- actions
\* /mcp, first branch: no transport found and a POST initialize body.  The
\* handler makes a transport, sets onclose, makes a protocol server and
\* suspends at `await server.connect(transport)`.
McpCreate(c, method, sid, body) ==
    /\ Route(Lookup(transports, sid) # NoContext, sid, method, body) = "create"
    /\ \E k \in ContextIds : ~contexts[k].made
    /\ uuids + Cardinality(Connecting) < MaxSessions
    /\ contexts' = [contexts EXCEPT ![NextContext] =
                        [made |-> TRUE, sessionId |-> NoSessionId, closed |-> FALSE,
                         madeFor |-> body]]
    /\ inflight' = [inflight EXCEPT ![c] =
                        [IdleSlot EXCEPT !.pc = "connecting", !.sid = sid,
                                         !.ctx = NextContext]]
    /\ UNCHANGED <<phase, apiClient, transports, uuids, done>>

\* /mcp, second and third branch: the two 400 answers.
McpReject(c, method, sid, body) ==
    LET branch == Route(Lookup(transports, sid) # NoContext, sid, method, body) IN
    /\ branch \in {"SessionInvalid", "SessionMissing"}
    /\ done' = IF branch = "SessionInvalid"
                 THEN SessionInvalid(Exchange(c, method, sid, body))
                 ELSE SessionMissing(Exchange(c, method, sid, body))
    /\ UNCHANGED <<phase, apiClient, transports, contexts, uuids, inflight>>

\* /mcp, transport found: transport.handleRequest on a request that is not a
\* tool invocation.  DELETE ends the session (the transport closes itself and
\* runs onclose); GET opens the notification stream; an initialize request
\* is refused by the transport, which is initialized already.
McpForward(c, method, sid, body) ==
    LET k == Lookup(transports, sid)
        x == Exchange(c, method, sid, body) IN
    /\ Route(k # NoContext, sid, method, body) = "forward"
    /\ method = "POST" => body # "tools/call"
    /\ done' = CASE method = "DELETE" -> Forwarded(x, k, 200, "closed")
                 [] method = "GET" -> Forwarded(x, k, 200, "stream")
                 [] body = "initialize" ->
                        [Forwarded(x, k, 400, "already-initialized") EXCEPT
                            !.code = -32600,
                            !.message = "Invalid Request: Server already initialized"]
                 [] body = "tools/list" ->
                        [Forwarded(x, k, 200, "tools") EXCEPT
                            !.listed = ListToolsHandler(k)]
                 [] OTHER -> Forwarded(x, k, 200, "ack")
    /\ contexts' = IF method = "DELETE"
                     THEN [contexts EXCEPT ![k].closed = TRUE] ELSE contexts
    /\ transports' = IF method = "DELETE" THEN onclose(transports, contexts[k])
                                          ELSE transports
    /\ UNCHANGED <<phase, apiClient, uuids, inflight>>

\* /mcp, transport found, tools/call: the CallTool handler up to its first
\* await (the fetch of the upstream client) or, when it throws before, to the
\* result its catch block returns.
McpCallTool(c, sid, name, args) ==
    LET k == Lookup(transports, sid)
        x == [Exchange(c, "POST", sid, "tools/call") EXCEPT !.tool = name, !.args = args]
        start == CallToolSwitch(name, args)
        op == ClientOperation(start.operation, start.eventId) IN
    /\ Route(k # NoContext, sid, "POST", "tools/call") = "forward"
    /\ IF start.threw
         THEN /\ done' = [Forwarded(x, k, 200, "result") EXCEPT
                             !.result = CallToolCatch(name, start.error)]
              /\ UNCHANGED inflight
         ELSE IF ~op.fetch
         THEN /\ done' = [Forwarded(x, k, 200, "result") EXCEPT
                             !.operations = 1, !.eventId = start.eventId,
                             !.result = CallToolCatch(name, op.error)]
              /\ UNCHANGED inflight
         ELSE /\ inflight' = [inflight EXCEPT ![c] =
                                 [pc |-> "upstream", sid |-> sid, ctx |-> k, tool |-> name,
                                  args |-> args, eventId |-> start.eventId,
                                  endpoint |-> op.endpoint, fetches |-> 1]]
              /\ UNCHANGED done
    /\ UNCHANGED <<phase, apiClient, transports, contexts, uuids>>

\* /mcp, transport found, and transport.handleRequest throws: the catch block
\* of the handler answers 500.
McpForwardThrows(c, method, sid, body) ==
    LET k == Lookup(transports, sid)
        x == Exchange(c, method, sid, body) IN
    /\ Route(k # NoContext, sid, method, body) = "forward"
    /\ done' = [InternalError(x) EXCEPT !.ctx = k]
    /\ UNCHANGED <<phase, apiClient, transports, contexts, uuids, inflight>>

\* GET /health: the handler reads the status of the upstream client and the
\* size of the map and answers; it reads no header of the request.
Health(c) ==
    /\ done' = [Exchange(c, "GET", NoSessionId, "") EXCEPT
                    !.path = "/health", !.outcome = "health", !.status = 200,
                    !.reply = "ok",
                    !.apiStatus = getStatus(apiClient.baseUrl, apiClient.apiKey),
                    !.activeSessions = MapSize(transports)]
    /\ UNCHANGED <<phase, apiClient, transports, contexts, uuids, inflight>>

\* A request arrives and its handler runs in the first free slot (the slots
\* are interchangeable: which one a handler occupies decides nothing).
Arrival(c) ==
    /\ Serving
    /\ ~Answered
    /\ inflight[c].pc = "idle"
    /\ \A d \in Clients : d < c => inflight[d].pc # "idle"

Create == \E c \in Clients :
              Arrival(c) /\ \E sid \in HeaderValues, q \in Requests :
                                McpCreate(c, q[1], sid, q[2]) /\ UNCHANGED wire
Reject == \E c \in Clients :
              Arrival(c) /\ \E sid \in HeaderValues, q \in Requests :
                                McpReject(c, q[1], sid, q[2]) /\ UNCHANGED wire
Forward == \E c \in Clients :
              Arrival(c) /\ \E sid \in HeaderValues, q \in Requests :
                                McpForward(c, q[1], sid, q[2]) /\ UNCHANGED wire
CallTool == \E c \in Clients :
              Arrival(c) /\ \E sid \in HeaderValues, call \in SessionCalls :
                                McpCallTool(c, sid, call[1], call[2]) /\ UNCHANGED wire

\* A transport that answers the handshake without the session header.
InitializeResponse_NoHeader(id) ==
    [header |-> NoSessionId,
     members |-> {"protocolVersion", "capabilities", "serverInfo"}]

\* The answer of the transport to the initialize request: the identifier it
\* was given by sessionIdGenerator goes into the Mcp-Session-Id response
\* header (the one the CORS configuration exposes), and the JSON body holds
\* the result of the protocol server, made of the protocol version and of
\* the capabilities, name and version createMcpServer gave it.
InitializeResponse(id) ==
    [header |-> id,
     members |-> {"protocolVersion", "capabilities", "serverInfo"}]

\* /mcp, first branch resumed after `await server.connect(transport)`:
\* transport.handleRequest on the initialize request.  A transport that
\* accepts it asks sessionIdGenerator for an identifier, calls
\* onsessioninitialized and answers with the identifier; one that refuses the
\* request (its Accept or Content-Type header) stays without a session.
Connected(c, acceptable) ==
    LET s == inflight[c]
        k == s.ctx
        id == sessionIdGenerator(uuids)
        x == Exchange(c, "POST", s.sid, "initialize") IN
    /\ Running
    /\ ~Answered
    /\ s.pc = "connecting"
    /\ IF acceptable
         THEN /\ contexts' = [contexts EXCEPT ![k].sessionId = id]
              /\ transports' = onsessioninitialized(transports, id, k)
              /\ uuids' = uuids + 1
              /\ done' = [Forwarded(x, k, 200, "initialized") EXCEPT
                             !.created = k,
                             !.session = InitializeResponse(id).header,
                             !.members = InitializeResponse(id).members]
         ELSE /\ done' = [Forwarded(x, k, 406, "not-acceptable") EXCEPT
                             !.created = k, !.code = -32000,
                             !.message = "Not Acceptable"]
              /\ UNCHANGED <<contexts, transports, uuids>>
    /\ inflight' = [inflight EXCEPT ![c] = IdleSlot]
    /\ UNCHANGED <<phase, apiClient>>

\* /mcp, first branch, and `await server.connect(transport)` rejects or
\* transport.handleRequest throws before the transport has a session: the
\* catch block answers 500.  The transport stays as it is, known to nobody.
ConnectThrows(c) ==
    LET s == inflight[c]
        x == Exchange(c, "POST", s.sid, "initialize") IN
    /\ Running
    /\ ~Answered
    /\ s.pc = "connecting"
    /\ done' = [InternalError(x) EXCEPT !.ctx = s.ctx, !.created = s.ctx]
    /\ inflight' = [inflight EXCEPT ![c] = IdleSlot]
    /\ UNCHANGED <<phase, apiClient, transports, contexts, uuids>>

\* Invocations that share one set of variables instead of having their own.
Closure_Shared(c) == inflight[1]

\* What the suspended handler of connection c resumes with: `name`, `args`
\* and the pending client call are locals of that call of the handler.
Closure(c) == inflight[c]

\* A transport that still writes after it was closed.
Writable_Always(k) == TRUE

\* The transport of context k can write a response: close() ends its streams
\* and forgets the requests it was answering.
Writable(k) == ~contexts[k].closed

\* The CallTool handler resumed when the fetch of the upstream client settles:
\* makeRequest returns the payload or throws, and the handler returns the
\* success result or the result of its catch block.  The answer reaches the
\* client only if the session's transport is still open.
UpstreamSettles(c, r) ==
    LET s == Closure(c)
        out == makeRequest(s.endpoint, r)
        x == [Exchange(c, "POST", s.sid, "tools/call") EXCEPT
                 !.tool = s.tool, !.args = s.args, !.eventId = s.eventId,
                 !.operations = 1, !.fetches = s.fetches, !.endpoint = s.endpoint,
                 !.upstream = r,
                 !.delivered = Writable(s.ctx)] IN
    /\ Running
    /\ ~Answered
    /\ s.pc = "upstream"
    /\ IF Retries(out) /\ s.fetches < MaxFetches
         THEN /\ inflight' = [inflight EXCEPT ![c].fetches = s.fetches + 1]
              /\ UNCHANGED done
         ELSE /\ done' = [Forwarded(x, s.ctx, 200, "result") EXCEPT
                             !.result = IF out.threw
                                          THEN CallToolCatch(s.tool, out.error)
                                          ELSE CallToolReturn(s.tool, out.value,
                                                   getStatus(apiClient.baseUrl,
                                                             apiClient.apiKey))]
              /\ inflight' = [inflight EXCEPT ![c] = IdleSlot]
    /\ UNCHANGED <<phase, apiClient, transports, contexts, uuids>>

\* The response has been written; the connection is idle again.
Delivered ==
    /\ Answered
    /\ done' = NoExchange
    /\ UNCHANGED <<phase, apiClient, transports, contexts, uuids, inflight>>

Deliver == Delivered /\ UNCHANGED wire

\* A context signals closure (transport.onclose runs).  Until
\* onsessioninitialized has stored it the transport is a local of the handler
\* that made it, and that handler never closes it: only a transport that has
\* a session can be closed, and it can be closed again.
CloseNotification(k) ==
    /\ Running
    /\ ~Answered
    /\ contexts[k].made
    /\ contexts[k].sessionId # NoSessionId
    /\ contexts' = [contexts EXCEPT ![k].closed = TRUE]
    /\ transports' = onclose(transports, contexts[k])
    /\ UNCHANGED <<phase, apiClient, uuids, inflight, done>>

\* shutdown(): one turn of `for (... of this.transports.entries())`, up to
\* its await.  The Map iterator yields the oldest entry still present
\* (entries added while the loop awaits are visited too);
\* `await transport.close()` closes it and its onclose deletes it.  When no
\* entry is left the loop ends, this.transports.clear() runs and
\* httpServer.close() is called.
Oldest == CHOOSE x \in Live : \A y \in Live : x <= y

ShutdownTurn ==
    IF Live # {}
      THEN /\ contexts' = [contexts EXCEPT ![transports[Oldest]].closed = TRUE]
           /\ transports' = onclose(transports, contexts[transports[Oldest]])
           /\ phase' = "closing"
      ELSE /\ transports' = MapClear(transports)
           /\ phase' = "cleared"
           /\ UNCHANGED contexts

\* SIGINT or SIGTERM: shutdown() starts and runs to its first await.
Signal ==
    /\ phase = "serving"
    /\ ~Answered
    /\ ShutdownTurn
    /\ UNCHANGED <<apiClient, uuids, inflight, done, wire>>

\* shutdown() resumed after `await transport.close()`.
ShutdownStep ==
    /\ phase = "closing"
    /\ ~Answered
    /\ ShutdownTurn
    /\ UNCHANGED <<apiClient, uuids, inflight, done, wire>>

\* shutdown(), and `await transport.close()` rejects: the loop has no
\* try/catch, so shutdown() rejects, the signal handler that awaits it
\* rejects, and the unhandledRejection handler logs and calls process.exit(1).
\* The transport that failed may or may not have run its onclose before.
ShutdownCloseRejects(removed) ==
    /\ phase \in {"serving", "closing"}
    /\ ~Answered
    /\ Live # {}
    /\ IF removed
         THEN /\ contexts' = [contexts EXCEPT ![transports[Oldest]].closed = TRUE]
              /\ transports' = onclose(transports, contexts[transports[Oldest]])
         ELSE UNCHANGED <<contexts, transports>>
    /\ phase' = "crashed"
    /\ UNCHANGED <<apiClient, uuids, inflight, done, wire>>

\* The callback of httpServer.close(): every connection has ended (the client
\* went away, or its response was ended when its transport was closed), and
\* the signal handler calls process.exit(0).  Nothing waits for a handler
\* that is suspended at an await: it never resumes.
Exit ==
    /\ phase = "cleared"
    /\ ~Answered
    /\ phase' = "exited"
    /\ UNCHANGED <<apiClient, transports, contexts, uuids, inflight, done, wire>>

Connect == \E c \in Clients, acceptable \in BOOLEAN :
               Connected(c, acceptable) /\ UNCHANGED wire
Settle == \E c \in Clients, r \in SessionReplies :
              UpstreamSettles(c, r) /\ UNCHANGED wire
Close == \E k \in ContextIds : CloseNotification(k) /\ UNCHANGED wire
CloseFails == \E removed \in BOOLEAN : ShutdownCloseRejects(removed)
ForwardFails == \E c \in Clients :
                    Arrival(c) /\ \E sid \in HeaderValues, q \in Requests :
                                      McpForwardThrows(c, q[1], sid, q[2]) /\ UNCHANGED wire
ConnectFails == \E c \in Clients : ConnectThrows(c) /\ UNCHANGED wire
HealthProbe == \E c \in Clients :
                   Arrival(c) /\ Health(c) /\ UNCHANGED wire

Next ==
    \/ Create
    \/ Reject
    \/ Forward
    \/ CallTool
    \/ Connect
    \/ Settle
    \/ Deliver
    \/ Close
    \/ ForwardFails
    \/ ConnectFails
    \/ HealthProbe
    \/ CloseFails
    \/ Signal
    \/ ShutdownStep
    \/ Exit

Spec == Init /\ [][Next]_vars

\* ------------------------------------------------- the dispatcher on its own
\* One session has been initialized (context 1, identifier 1); the clients
\* invoke tools on it with every name and arguments mapping, and the upstream
\* answers in every way.
DispatchInit ==
    /\ phase = "serving"
    /\ apiClient = VercelApiClient(JsUndefined, JsString("secret"))
    /\ transports = [x \in SessionIds |-> IF x = 1 THEN 1 ELSE NoContext]
    /\ contexts = [k \in ContextIds |->
                     IF k = 1 THEN [made |-> TRUE, sessionId |-> 1, closed |-> FALSE,
                                    madeFor |-> "initialize"]
                              ELSE Unmade]
    /\ uuids = 1
    /\ inflight = [c \in Clients |-> IdleSlot]
    /\ done = NoExchange
    /\ wire = NoWire

DispatchCallTool ==
    \E c \in Clients :
        Arrival(c) /\ \E sid \in HeaderValues, n \in ToolNames, a \in ArgValues :
                          McpCallTool(c, sid, n, a) /\ UNCHANGED wire

DispatchSettle == \E c \in Clients, r \in Replies :
                      UpstreamSettles(c, r) /\ UNCHANGED wire

DispatchNext ==
    \/ DispatchCallTool
    \/ DispatchSettle
    \/ Deliver

SpecDispatch == DispatchInit /\ [][DispatchNext]_vars

\* ------------------------------------------- the dispatcher during shutdown
\* One session, the invocations of SessionCalls, every reply of the
\* upstream, and a signal arriving at any moment.  An upstream call
\* that is pending eventually returns or fails and its handler resumes (the
\* event loop runs every callback that is ready), unless the process has
\* exited; a response that is being written is written.
LiveNext ==
    \/ CallTool
    \/ DispatchSettle
    \/ Deliver
    \/ Signal
    \/ ShutdownStep
    \/ Exit

Fairness ==
    /\ WF_vars(Deliver)
    /\ \A c \in Clients :
           SF_vars(\E r \in Replies : UpstreamSettles(c, r) /\ UNCHANGED wire)

SpecLive == DispatchInit /\ [][LiveNext]_vars /\ Fairness

\* ------------------------------------------------- the callers of the server
\* Requests of several peers, with and without the client token, on the
\* protocol endpoint: handshakes, discovery and one invocation.  What each
\* request carried is recorded when it arrives and follows its handler.
Sends(c, sender) ==
    wire' = [wire EXCEPT
                !.slot[c] = IF inflight'[c].pc = "idle" THEN NoSender ELSE sender,
                !.last = IF done'.client # 0 THEN sender ELSE NoSender,
                !.owner = [k \in ContextIds |->
                              IF contexts'[k].made /\ ~contexts[k].made
                                THEN sender ELSE wire.owner[k]]]

Resumes(c) ==
    wire' = [wire EXCEPT
                !.slot[c] = IF inflight'[c].pc = "idle" THEN NoSender ELSE wire.slot[c],
                !.last = IF done'.client # 0 THEN wire.slot[c] ELSE NoSender]

WireInit ==
    /\ phase = "serving"
    /\ apiClient = VercelApiClient(JsUndefined, JsString("secret"))
    /\ transports = [x \in SessionIds |-> NoContext]
    /\ contexts = [k \in ContextIds |-> Unmade]
    /\ uuids = 0
    /\ inflight = [c \in Clients |-> IdleSlot]
    /\ done = NoExchange
    /\ wire = NoWire

WireBodies == {"initialize", "tools/list"}

WireCreate ==
    \E c \in Clients :
        Arrival(c) /\ \E sender \in Senders, sid \in HeaderValues :
                          McpCreate(c, "POST", sid, "initialize") /\ Sends(c, sender)

WireReject ==
    \E c \in Clients :
        Arrival(c) /\ \E sender \in Senders, sid \in HeaderValues, body \in WireBodies :
                          McpReject(c, "POST", sid, body) /\ Sends(c, sender)

WireForward ==
    \E c \in Clients :
        Arrival(c) /\ \E sender \in Senders, sid \in HeaderValues, body \in WireBodies :
                          McpForward(c, "POST", sid, body) /\ Sends(c, sender)

WireCallTool ==
    \E c \in Clients :
        Arrival(c) /\ \E sender \in Senders, sid \in HeaderValues :
                          /\ McpCallTool(c, sid, "test_connection",
                                         ArgsOf(JsUndefined, FALSE))
                          /\ Sends(c, sender)

WireConnect == \E c \in Clients : Connected(c, TRUE) /\ Resumes(c)

WireSettle == \E c \in Clients : UpstreamSettles(c, ReplyProbe) /\ Resumes(c)

WireDeliver == Delivered /\ wire' = [wire EXCEPT !.last = NoSender]

WireNext ==
    \/ WireCreate
    \/ WireReject
    \/ WireForward
    \/ WireCallTool
    \/ WireConnect
    \/ WireSettle
    \/ WireDeliver

SpecWire == WireInit /\ [][WireNext]_vars

\* ---------------------------------------------------- one peer, one window
\* One session has been initialized; a single peer sends request after
\* request within one 15-minute window, and the requests it has sent are
\* counted (up to one more than the documented limit).
Counts == wire' = [wire EXCEPT !.served = wire.served + 1]

RateArrival(c) == Arrival(c) /\ wire.served <= RateLimitMax

RateCreate ==
    \E c \in Clients :
        RateArrival(c) /\ McpCreate(c, "POST", NoSessionId, "initialize") /\ Counts

RateReject ==
    \E c \in Clients :
        RateArrival(c) /\ \E sid \in HeaderValues :
                              McpReject(c, "POST", sid, "tools/list") /\ Counts

RateForward ==
    \E c \in Clients :
        RateArrival(c) /\ \E sid \in HeaderValues :
                              McpForward(c, "POST", sid, "tools/list") /\ Counts

RateConnect == \E c \in Clients : Connected(c, TRUE) /\ UNCHANGED wire

RateNext ==
    \/ RateCreate
    \/ RateReject
    \/ RateForward
    \/ RateConnect
    \/ Deliver

SpecRate == DispatchInit /\ [][RateNext]_vars

\* ------------------------------------------------------------------ claims
IsHandshake(method, body) == method = "POST" /\ isInitializeRequest(body)

\* The step in which the router hands client c's request to a context: the
\* exchange completes in the arrival step, or the handler suspends on a fetch.
AnsweredOnArrival ==
    /\ ~Answered
    /\ Answered'
    /\ inflight[done'.client].pc = "idle"

SuspendsOnFetch(c) == inflight[c].pc = "idle" /\ inflight'[c].pc = "upstream"

\* The open context that holds session identifier x, if any.
OpenContextsOf(x) ==
    {k \in ContextIds : contexts[k].made /\ ~contexts[k].closed
                        /\ contexts[k].sessionId = x /\ x # NoSessionId}

\* C1: a tool invocation reaches the dispatcher only through a context that
\* was made for an initialize request, and a request that is not an
\* initialize request is forwarded only to the context the store holds for
\* the session identifier it carries.
C1_ContextsMadeByHandshake ==
    /\ \A k \in ContextIds : contexts[k].made => contexts[k].madeFor = "initialize"
    /\ \A c \in Clients :
          inflight[c].pc = "upstream" =>
              /\ inflight[c].ctx # NoContext
              /\ contexts[inflight[c].ctx].madeFor = "initialize"
    /\ (Answered /\ done.tool # "") =>
              /\ done.ctx # NoContext
              /\ contexts[done.ctx].madeFor = "initialize"

C1_ForwardNeedsLiveSession ==
    /\ (AnsweredOnArrival /\ done'.outcome = "forwarded") =>
          /\ done'.sid # NoSessionId
          /\ done'.ctx # NoContext
          /\ Lookup(transports, done'.sid) = done'.ctx
    /\ \A c \in Clients :
          SuspendsOnFetch(c) =>
              /\ inflight'[c].sid # NoSessionId
              /\ inflight'[c].ctx # NoContext
              /\ Lookup(transports, inflight'[c].sid) = inflight'[c].ctx

\* C1: every context was made for an initialize request, and every request
\* that is forwarded goes to the context the store holds for its session.
C1_HandshakeBeforeDispatch ==
    [] C1_ContextsMadeByHandshake /\ [][C1_ForwardNeedsLiveSession]_vars

C1_Witness ==
    \E c \in Clients :
        /\ inflight[c].pc = "upstream"
        /\ contexts[inflight[c].ctx].madeFor = "initialize"
        /\ contexts[inflight[c].ctx].sessionId = inflight[c].sid

\* C2: a request without a session identifier that is not a POST initialize
\* request is answered 400 / -32000 / 'No session ID provided. Initialize
\* first.', makes no context and no session, and is forwarded to no context.
C2_Answer ==
    /\ (Answered /\ done.path = "/mcp" /\ done.sid = NoSessionId
            /\ ~IsHandshake(done.method, done.body)) =>
          /\ done.outcome = "SessionMissing"
          /\ done.status = 400
          /\ done.code = -32000
          /\ done.message = "No session ID provided. Initialize first."
          /\ done.ctx = NoContext
          /\ done.created = NoContext
          /\ done.session = NoSessionId
          /\ ~done.result.returned
    /\ \A c \in Clients : inflight[c].pc = "upstream" => inflight[c].sid # NoSessionId

C2_NoEffect ==
    (~Answered /\ Answered' /\ done'.path = "/mcp" /\ done'.sid = NoSessionId
        /\ ~IsHandshake(done'.method, done'.body)) =>
            UNCHANGED <<transports, contexts, uuids, inflight>>

\* C2: a request with no session identifier that is not a POST initialize
\* request is answered SessionMissing and changes nothing.
C2_SessionMissing == [] C2_Answer /\ [][C2_NoEffect]_vars

C2_Witness ==
    /\ done.outcome = "SessionMissing"
    /\ done.method = "POST"
    /\ done.body = "tools/call"
    /\ Live # {}

\* C3: a request that carries a session identifier the store does not hold is
\* answered SessionInvalid (400 / -32000 / 'Invalid session ID or session
\* expired') whatever its method and body, and makes no context or session.
C3_SessionInvalidAlways ==
    /\ \A c \in Clients : inflight[c].pc = "connecting" => inflight[c].sid = NoSessionId
    /\ (Answered /\ done.created # NoContext) => done.sid = NoSessionId
    /\ (Answered /\ done.sid # NoSessionId /\ done.ctx = NoContext) =>
          /\ done.outcome = "SessionInvalid"
          /\ done.status = 400
          /\ done.code = -32000
          /\ done.message = "Invalid session ID or session expired"

\* C4: from the answer to a handshake until its session is closed, the
\* identifier is in the store and maps to the context that handled the
\* handshake; a request carrying it is forwarded to that context and never
\* rejected, and discovery on it succeeds.
C4_Registered ==
    /\ \A k \in ContextIds :
          (contexts[k].made /\ contexts[k].sessionId # NoSessionId /\ ~contexts[k].closed)
              => transports[contexts[k].sessionId] = k
    /\ (Answered /\ done.session # NoSessionId) =>
          /\ done.created # NoContext
          /\ transports[done.session] = done.created
          /\ contexts[done.created].sessionId = done.session
    /\ (Answered /\ done.outcome = "forwarded" /\ done.method = "POST"
            /\ done.body = "tools/list" /\ done.created = NoContext) =>
          /\ done.status = 200
          /\ done.listed = ListTools

C4_Routed ==
    /\ AnsweredOnArrival =>
          \A k \in OpenContextsOf(done'.sid) :
              done'.outcome \in {"forwarded", "InternalError"} /\ done'.ctx = k
    /\ \A c \in Clients :
          SuspendsOnFetch(c) =>
              \A k \in OpenContextsOf(inflight'[c].sid) : inflight'[c].ctx = k
    /\ \A c \in Clients :
          (inflight[c].pc = "idle" /\ inflight'[c].pc = "connecting") =>
              OpenContextsOf(inflight'[c].sid) = {}

\* C4: a session that was handed out stays registered and routable until it
\* is closed.
C4_SessionUsableUntilClosed == [] C4_Registered /\ [][C4_Routed]_vars

C4_Witness ==
    /\ done.outcome = "forwarded"
    /\ done.body = "tools/list"
    /\ done.created = NoContext
    /\ done.listed = ListTools
    /\ done.ctx = 2
    /\ contexts[done.ctx].sessionId = done.sid

\* C5: the store maps an identifier to the one context that was initialized
\* with it, no two contexts that are open hold the same identifier, and
\* registering a session never replaces the entry of a live one.
C5_OnePerIdentifier ==
    /\ \A x \in Live : contexts[transports[x]].sessionId = x
    /\ \A j, k \in ContextIds :
          (j # k /\ contexts[j].sessionId # NoSessionId /\ ~contexts[j].closed
                 /\ ~contexts[k].closed)
              => contexts[j].sessionId # contexts[k].sessionId

C5_NeverOverwrites ==
    \A x \in SessionIds :
        (transports[x] # NoContext /\ transports'[x] # NoContext)
            => transports'[x] = transports[x]

\* C5: one open context per identifier, and a live entry of the store is
\* never replaced.
C5_UniqueSessions == [] C5_OnePerIdentifier /\ [][C5_NeverOverwrites]_vars

C5_Witness ==
    /\ Cardinality(Live) = 2
    /\ done.session = 2

\* An identifier whose session has been removed from the store.
Removed(x) ==
    /\ x # NoSessionId
    /\ \E k \in ContextIds : contexts[k].sessionId = x /\ contexts[k].closed

\* C6: once a session has been removed from the store its identifier is never
\* live again, and every later request carrying it, whatever its method and
\* body, is answered SessionInvalid.
C6_NeverLiveAgain == \A x \in SessionIds : Removed(x) => transports[x] = NoContext

C6_LaterRequests ==
    /\ \A c \in Clients :
          (inflight[c].pc = "idle" /\ inflight'[c].pc = "connecting")
              => ~Removed(inflight'[c].sid)
    /\ \A c \in Clients : SuspendsOnFetch(c) => ~Removed(inflight'[c].sid)
    /\ (AnsweredOnArrival /\ Removed(done'.sid)) =>
          /\ done'.outcome = "SessionInvalid"
          /\ done'.created = NoContext

\* C6: a removed identifier is never live again and every later request
\* carrying it is answered SessionInvalid.
C6_RemovedStaysInvalid == [] C6_NeverLiveAgain /\ [][C6_LaterRequests]_vars

\* An exchange that is the answer to a tool invocation.
Invoked == Answered /\ done.outcome = "forwarded" /\ done.body = "tools/call"

\* C7: an invocation whose tool name is not registered, with any arguments,
\* returns the result tagged isError with the message 'Unknown tool: <name>'
\* and calls no operation of the upstream client.
C7_UnknownTool ==
    /\ (Invoked /\ done.tool \notin RegisteredNames) =>
          /\ done.result.returned
          /\ done.result.isError
          /\ done.result.text.error = <<"Unknown tool: ", done.tool>>
          /\ done.operations = 0
          /\ done.fetches = 0
    /\ \A c \in Clients : inflight[c].pc = "upstream" => inflight[c].tool \in RegisteredNames

C7_Witness ==
    /\ Invoked
    /\ done.tool = "Test_Connection"
    /\ done.result.isError
    /\ done.args = NoArgs

\* eventId is missing from the arguments, or empty, or there are no arguments.
EventIdMissing(args) ==
    \/ ~args.present
    \/ args.eventId = JsUndefined
    \/ args.eventId = JsNull
    \/ args.eventId = JsString("")

\* C8: an invocation of a tool that requires eventId, with eventId missing or
\* empty or with no arguments mapping at all, returns the result tagged
\* isError whose message names eventId, and calls no operation of the
\* upstream client.
C8_MissingEventId ==
    /\ (Invoked /\ done.tool \in EventIdTools /\ EventIdMissing(done.args)) =>
          /\ done.result.returned
          /\ done.result.isError
          /\ Mentions(done.result.text.error, "eventId")
          /\ done.result.text.tool = done.tool
          /\ done.operations = 0
          /\ done.fetches = 0
    /\ \A c \in Clients :
          (inflight[c].pc = "upstream" /\ inflight[c].tool \in EventIdTools)
              => ~EventIdMissing(inflight[c].args)

C8_Witness ==
    /\ Invoked
    /\ done.tool = "get_evaluation_criteria"
    /\ ~done.args.present
    /\ done.result.isError
    /\ done.operations = 0

\* C9: every eventId that reaches an operation of the upstream client is a
\* non-empty string.
C9_EventIdIsString ==
    /\ \A c \in Clients :
          (inflight[c].pc = "upstream" /\ inflight[c].tool \in EventIdTools) =>
              /\ inflight[c].eventId.t = "string"
              /\ inflight[c].eventId.v # ""
    /\ (Invoked /\ done.operations > 0 /\ done.tool \in EventIdTools) =>
              /\ done.eventId.t = "string"
              /\ done.eventId.v # ""

\* The upstream call failed: no response, a status that is not 2xx, a body
\* that is not JSON, success false, or success true without data.
UpstreamFailed(r) ==
    ~r.reached \/ ~r.ok \/ ~r.parses \/ ~r.success \/ ~Truthy(r.data)

\* C10: when the upstream call fails in any of these ways the handler still
\* returns: the result is tagged isError and carries the message of the
\* failure, the name of the invoked tool and a timestamp.
C10_UpstreamFailure ==
    (Invoked /\ done.fetches = 1 /\ UpstreamFailed(done.upstream)) =>
        /\ done.status = 200
        /\ done.result.returned
        /\ done.result.isError
        /\ done.result.text.error = makeRequest(done.endpoint, done.upstream).error.message
        /\ done.result.text.error # << >>
        /\ done.result.text.tool = done.tool
        /\ done.result.text.timestamp = NowISO
        /\ done.result.text.payload = ""

C10_Witness ==
    /\ Invoked
    /\ done.fetches = 1
    /\ done.upstream = ReplyRefused
    /\ done.result.isError
    /\ Mentions(done.result.text.error, "Event not found")

\* A tool invocation that failed: no request went out (unknown tool, invalid
\* arguments) or the one that went out failed.
InvocationFailed(x) ==
    /\ x.outcome = "forwarded"
    /\ x.method = "POST"
    /\ x.body = "tools/call"
    /\ (x.fetches = 0 \/ UpstreamFailed(x.upstream))

C11_StillRegistered ==
    (Answered /\ InvocationFailed(done) /\ ~contexts[done.ctx].closed) =>
        /\ transports[done.sid] = done.ctx
        /\ contexts[done.ctx].sessionId = done.sid

C11_FailureLeavesSession ==
    (~Answered /\ Answered' /\ InvocationFailed(done')) =>
        /\ done'.status = 200
        /\ done'.result.returned
        /\ done'.result.isError
        /\ UNCHANGED <<phase, apiClient, transports, contexts, uuids>>
        /\ inflight'[done'.client].pc = "idle"
        /\ \A c \in Clients : c # done'.client => inflight'[c] = inflight[c]

\* C11: a tool invocation that fails (unknown tool, invalid arguments or
\* upstream failure) returns an error-tagged result and changes neither the
\* store nor any context: its session, unless something else closed it, is
\* still registered to the same context, so the next invocation on the
\* identifier is routed exactly as before the failure.
C11_SessionSurvivesFailure ==
    [] C11_StillRegistered /\ [][C11_FailureLeavesSession]_vars

C11_Witness ==
    /\ Invoked
    /\ done.method = "POST"
    /\ done.fetches = 1
    /\ UpstreamFailed(done.upstream)
    /\ done.result.isError
    /\ transports[done.sid] = done.ctx
    /\ ~contexts[done.ctx].closed

\* The result of the invocation that occupied slot c.
Yielded(c) == Answered /\ done.client = c /\ done.result.returned

C12_EitherOr ==
    Invoked =>
        /\ done.result.returned
        /\ done.result.isError =>
              (done.result.text.error # << >> /\ done.result.text.payload = "")
        /\ ~done.result.isError =>
              (done.result.text.error = << >> /\ done.result.text.payload # "")

C12_AtMostOne ==
    /\ \A c \in Clients :
          (inflight[c].pc = "upstream" /\ inflight'[c].pc # "upstream") =>
              (~Answered /\ Yielded(c)' /\ inflight'[c].pc = "idle")
    /\ (~Answered /\ Answered') =>
          /\ done'.result.returned
          /\ inflight'[done'.client].pc = "idle"

C12_Eventually == \A c \in Clients : (inflight[c].pc = "upstream") ~> Yielded(c)

C12_EventuallyUnlessExit ==
    \A c \in Clients : (inflight[c].pc = "upstream") ~> (Yielded(c) \/ phase = "exited")

\* C12 as stated: every invocation yields at most one result, a success
\* payload or a failure descriptor and never both, and, the upstream call
\* returning or failing, eventually yields one.
C12_ExactlyOneResult ==
    [] C12_EitherOr /\ [][C12_AtMostOne]_vars /\ C12_Eventually

\* C12, amended: at most one result, never both kinds, and eventually one
\* unless the process exits at shutdown while the upstream call is pending.
C12_OneResultWhileRunning ==
    [] C12_EitherOr /\ [][C12_AtMostOne]_vars /\ C12_EventuallyUnlessExit

C12_Witness ==
    /\ Invoked
    /\ done.fetches = 1
    /\ ~done.result.isError
    /\ phase = "cleared"
    /\ \E c \in Clients : inflight[c].pc = "upstream"

\* C13: an invocation causes at most one outbound request, also when that
\* request fails, and calls at most one operation of the upstream client.
C13_SingleAttempt ==
    /\ \A c \in Clients :
          /\ inflight[c].fetches <= 1
          /\ inflight[c].pc = "upstream" <=> inflight[c].fetches = 1
    /\ Invoked =>
          /\ done.fetches <= 1
          /\ done.operations <= 1
          /\ done.fetches <= done.operations
          /\ done.result.returned

C13_Witness ==
    /\ Invoked
    /\ done.fetches = 1
    /\ done.upstream = ReplyNetworkDown
    /\ done.result.isError

\* The parameters the descriptor of a registered tool lists as required.
RequiredOf(name) ==
    LET i == CHOOSE j \in DOMAIN ListTools : ListTools[j].name = name
    IN  {ListTools[i].required[n] : n \in DOMAIN ListTools[i].required}

\* The arguments give parameter p a value of the declared type, or give none.
Supplies(args, p) ==
    p = "eventId" /\ args.present /\ args.eventId.t = "string" /\ args.eventId.v # ""
Lacks(args, p) == p = "eventId" /\ EventIdMissing(args)

RejectedAsUnknown(x) ==
    /\ x.result.isError
    /\ x.result.text.error = <<"Unknown tool: ", x.tool>>
    /\ x.operations = 0

\* C14: the dispatcher rejects a name as unknown exactly when discovery does
\* not list it; for a listed tool it calls the upstream operation when every
\* parameter the descriptor requires is supplied, whatever else the arguments
\* hold, and fails naming the parameter when a required one is missing.
C14_RegistryAgreesWithDispatcher ==
    /\ Invoked => (RejectedAsUnknown(done) <=> done.tool \notin RegisteredNames)
    /\ (Invoked /\ done.tool \in RegisteredNames) =>
          /\ (\A p \in RequiredOf(done.tool) : Supplies(done.args, p)) =>
                (done.operations = 1 /\ done.fetches = 1)
          /\ \A p \in RequiredOf(done.tool) :
                Lacks(done.args, p) =>
                    /\ done.operations = 0
                    /\ done.result.isError
                    /\ Mentions(done.result.text.error, p)
    /\ \A c \in Clients :
          inflight[c].pc = "upstream" =>
              /\ inflight[c].tool \in RegisteredNames
              /\ \A p \in RequiredOf(inflight[c].tool) : ~Lacks(inflight[c].args, p)

C14_Witness ==
    /\ Invoked
    /\ done.tool = "get_application_questions"
    /\ done.args = ArgsOf(JsString("evt-1"), TRUE)
    /\ done.operations = 1
    /\ ~done.result.isError

\* The exchange is the answer to a discovery request.
Discovery(x) == x.outcome = "forwarded" /\ x.method = "POST" /\ x.body = "tools/list"

C15_SameList ==
    (Answered /\ Discovery(done)) =>
        /\ done.status = 200
        /\ Len(done.listed) = 5
        /\ [i \in 1..5 |-> done.listed[i].name] =
              <<"test_connection", "get_event_applications", "get_event_evaluations",
                "get_evaluation_criteria", "get_application_questions">>
        /\ [i \in 1..5 |-> done.listed[i].required] =
              << << >>, <<"eventId">>, <<"eventId">>, <<"eventId">>, <<"eventId">> >>

C15_NoEffect ==
    (~Answered /\ Answered' /\ Discovery(done')) =>
        UNCHANGED <<phase, apiClient, transports, contexts, uuids, inflight>>

\* C15: every discovery request, on any session and after any other
\* operations, is answered with the same ordered list of five descriptors,
\* and answering it changes neither the store nor any session.
C15_DiscoveryIdempotent == [] C15_SameList /\ [][C15_NoEffect]_vars

C15_Witness ==
    /\ Answered
    /\ Discovery(done)
    /\ done.ctx = 2
    /\ done.listed = ListTools
    /\ \E k \in ContextIds : contexts[k].closed
    /\ \E c \in Clients : inflight[c].pc = "upstream"

\* An invocation of test_connection whose probe succeeded.
ProbeSucceeded ==
    /\ Invoked
    /\ done.tool = "test_connection"
    /\ done.fetches = 1
    /\ ~UpstreamFailed(done.upstream)

\* The names the handler writes after the spread.
OwnMembers == {"mcpServer", "version", "apiClient"}

C16_Tagged ==
    /\ done.result.returned
    /\ ~done.result.isError
    /\ done.result.text.extras.present
    /\ done.result.text.extras.apiClient.configured
    /\ done.result.text.extras.apiClient.hasApiKey
    /\ done.result.text.extras.apiClient.baseUrl = apiClient.baseUrl

\* C16 as stated: a successful probe returns a result that is not
\* error-tagged and holds every member of the upstream payload with its
\* value, and the client's status with configured true.
C16_EveryPayloadField ==
    ProbeSucceeded =>
        /\ C16_Tagged
        /\ \A i \in DOMAIN Members(done.upstream.data.v) :
              SpreadMember(done.result.text, Members(done.upstream.data.v)[i][1])
                  = Members(done.upstream.data.v)[i][2]

\* C16, amended: it holds every member of the upstream payload that is not
\* named mcpServer, version or apiClient; those three hold the server's own
\* name, version and client status.
C16_PayloadFieldsKept ==
    ProbeSucceeded =>
        /\ C16_Tagged
        /\ \A i \in DOMAIN Members(done.upstream.data.v) :
              Members(done.upstream.data.v)[i][1] \notin OwnMembers =>
                  SpreadMember(done.result.text, Members(done.upstream.data.v)[i][1])
                      = Members(done.upstream.data.v)[i][2]
        /\ SpreadMember(done.result.text, "mcpServer") = "ftc-platform-mcp"
        /\ SpreadMember(done.result.text, "version") = "1.0.0"

C16_Witness ==
    /\ ProbeSucceeded
    /\ done.args = ArgsOf(JsUndefined, FALSE)
    /\ done.upstream = ReplyProbe
    /\ ~done.result.isError
    /\ SpreadMember(done.result.text, "timestamp") = "2025-06-01T12:00:00.000Z"

\* C17: once the session-closing phase of shutdown has returned (the store
\* was cleared), the store is empty and every context that holds a session
\* is closed, whatever was in flight while shutdown ran.
C17_EmptyAfterShutdown ==
    phase \in {"cleared", "exited"} =>
        /\ Live = {}
        /\ \A k \in ContextIds :
              contexts[k].sessionId # NoSessionId => contexts[k].closed

\* C18: no two requests carrying the same session identifier are being
\* handled by that session's context at the same time.
C18_OneRequestPerSession ==
    /\ \A c, d \in Clients :
          (c # d /\ inflight[c].pc = "upstream" /\ inflight[d].pc = "upstream")
              => inflight[c].sid # inflight[d].sid
    /\ (Answered /\ done.outcome = "forwarded" /\ done.created = NoContext) =>
          \A c \in Clients :
              (c # done.client /\ inflight[c].pc = "upstream")
                  => inflight[c].sid # done.sid

\* The result the handler returns for tool `name` when the request to
\* `endpoint` is answered with r.
ResultOf(name, endpoint, r) ==
    LET out == makeRequest(endpoint, r)
    IN  IF out.threw
          THEN CallToolCatch(name, out.error)
          ELSE CallToolReturn(name, out.value,
                              getStatus(apiClient.baseUrl, apiClient.apiKey))

C19_OwnResult ==
    /\ \A c \in Clients :
          (inflight[c].pc = "upstream" /\ inflight'[c].pc = "idle") =>
              /\ done'.client = c
              /\ done'.sid = inflight[c].sid
              /\ done'.ctx = inflight[c].ctx
              /\ contexts[done'.ctx].sessionId = done'.sid
              /\ done'.tool = inflight[c].tool
              /\ done'.args = inflight[c].args
              /\ done'.result = ResultOf(inflight[c].tool, inflight[c].endpoint,
                                         done'.upstream)
              /\ \A d \in Clients : d # c => inflight'[d] = inflight[d]
    /\ (~Answered /\ Answered' /\ done'.fetches > 0) =>
          inflight[done'.client].pc = "upstream"

C19_Attributed ==
    (Invoked /\ done.method = "POST") =>
        /\ contexts[done.ctx].sessionId = done.sid
        /\ done.result.returned
        /\ done.result.isError => done.result.text.tool = done.tool

\* C19: with invocations of several sessions in flight in any order, the
\* result of each is returned on the connection, the session and the context
\* of the request that caused it, and is what that request's name, arguments
\* and own upstream reply determine; no other request in flight is touched.
C19_ResultsAttributed == [] C19_Attributed /\ [][C19_OwnResult]_vars

C19_Witness ==
    /\ Invoked
    /\ done.fetches = 1
    /\ done.client = 2
    /\ \E c \in Clients :
          /\ inflight[c].pc = "upstream"
          /\ inflight[c].sid # done.sid
          /\ inflight[c].tool # done.tool

\* C20: the server serves only when both settings were present at startup:
\* with VERCEL_API_BASE_URL unset (the client then holds the default URL) or
\* MASTRA_API_KEY unset or empty, construction has failed.
C20_RefusesToStart ==
    (apiClient.baseUrl = DefaultBaseUrl \/ apiClient.baseUrl = "" \/ apiClient.apiKey = "")
        => phase = "failed"

\* The request carried the client token: `Authorization: Bearer <token>`.
HasClientToken(sender) == sender.authorization = Bearer(McpClientToken)

\* C21: with MCP_CLIENT_TOKEN configured, a request to /mcp without a matching
\* `Authorization: Bearer <token>` header never creates a session, is never
\* forwarded to a session context and never triggers a tool invocation.
C21_TokenValidated ==
    /\ \A k \in ContextIds : contexts[k].made => HasClientToken(wire.owner[k])
    /\ \A c \in Clients : inflight[c].pc # "idle" => HasClientToken(wire.slot[c])
    /\ (Answered /\ done.outcome = "forwarded") => HasClientToken(wire.last)

\* The step registers one session: a handshake completes and its identifier,
\* which the store did not hold, now maps to the context the handshake made.
StoreAdds ==
    \E c \in Clients, x \in SessionIds :
        /\ inflight[c].pc = "connecting"
        /\ inflight'[c].pc = "idle"
        /\ done'.session = x
        /\ transports[x] = NoContext
        /\ transports' = [transports EXCEPT ![x] = inflight[c].ctx]

\* The step removes one session: its context closes and only its entry goes.
StoreRemoves ==
    \E k \in ContextIds :
        /\ contexts[k].sessionId # NoSessionId
        /\ ~contexts[k].closed
        /\ contexts'[k].closed
        /\ transports[contexts[k].sessionId] = k
        /\ transports' = [transports EXCEPT ![contexts[k].sessionId] = NoContext]

\* The step is the end of shutdown's loop: whatever is left is removed.
StoreClears ==
    /\ phase \in {"serving", "closing"}
    /\ phase' = "cleared"
    /\ transports' = [x \in SessionIds |-> NoContext]

\* The step answers a request that is neither a completed handshake nor a
\* DELETE forwarded to its session (lookup and the two 400 answers, a
\* forwarded request, discovery, an invocation that returns, the health
\* probe), or it starts or resumes an invocation.
StoreReadOnlyStep ==
    \/ /\ ~Answered
       /\ Answered'
       /\ done'.session = NoSessionId
       /\ ~(done'.outcome = "forwarded" /\ done'.method = "DELETE")
    \/ \E c \in Clients : SuspendsOnFetch(c)

C22_ThreeWays == transports' # transports => StoreAdds \/ StoreRemoves \/ StoreClears

C22_ReadOnly == StoreReadOnlyStep => transports' = transports

\* C22 as stated: forwarding to an existing session, whatever the request,
\* leaves the store unchanged.
C22_ForwardingLeavesStore ==
    [][(AnsweredOnArrival /\ done'.outcome = "forwarded") => transports' = transports]_vars

\* C22, amended: the store changes only by a handshake adding its session, a
\* close notification removing its session and shutdown removing what is
\* left; lookup, forwarding a request other than DELETE, discovery, tool
\* invocation, the health probe and the two 400 answers leave it unchanged.
C22_StoreChanges == [][C22_ThreeWays /\ C22_ReadOnly]_vars

C22_Witness ==
    /\ Answered
    /\ done.outcome = "SessionInvalid"
    /\ Live # {}
    /\ \E k \in ContextIds : contexts[k].closed

\* The sessions whose handshake completed and that have not been closed.
OpenSessions ==
    {k \in ContextIds :
        contexts[k].made /\ contexts[k].sessionId # NoSessionId /\ ~contexts[k].closed}

Probed(x) == x.client # 0 /\ x.path = "/health"

C23_Count ==
    Probed(done) =>
        /\ done.sid = NoSessionId
        /\ done.outcome = "health"
        /\ done.status = 200
        /\ done.activeSessions = Cardinality(OpenSessions)

C23_NoEffect ==
    (~Answered /\ Probed(done')) => UNCHANGED <<transports, contexts, uuids, inflight>>

\* C23: the count the health probe reports is the number of sessions whose
\* handshake completed and that have not been closed; the probe is answered
\* without a session identifier and changes nothing in the store.
C23_HealthCount == [] C23_Count /\ [][C23_NoEffect]_vars

C23_Witness ==
    /\ Probed(done)
    /\ done.activeSessions = 1
    /\ \E k \in ContextIds : contexts[k].closed

\* Context k closes in this step while the handler of connection c waits for
\* the upstream on one of its invocations.
ClosesUnder(c, k) ==
    /\ inflight[c].pc = "upstream"
    /\ inflight[c].ctx = k
    /\ ~contexts[k].closed
    /\ contexts'[k].closed

\* The handler of connection c resumes in this step, its session closed.
ResumesClosed(c) ==
    /\ inflight[c].pc = "upstream"
    /\ inflight'[c].pc # "upstream"
    /\ contexts[inflight[c].ctx].closed

C24_ClosedAtOnce ==
    \A c \in Clients, k \in ContextIds :
        ClosesUnder(c, k) =>
            /\ transports'[contexts[k].sessionId] = NoContext
            /\ inflight'[c] = inflight[c]

C24_ResultDiscarded ==
    \A c \in Clients :
        ResumesClosed(c) =>
            /\ done'.client = c
            /\ done'.fetches = 1
            /\ done'.result.returned
            /\ ~done'.delivered
            /\ transports'[inflight[c].sid] = NoContext
            /\ UNCHANGED <<transports, contexts, uuids>>

\* C24: when a session closes while one of its invocations waits for the
\* upstream, its entry leaves the store in that step and the pending call
\* stays pending; when the call settles the handler produces a result that
\* reaches no client, and neither the store nor the contexts change.
C24_CloseDuringInvocation == [][C24_ClosedAtOnce /\ C24_ResultDiscarded]_vars

C24_Witness ==
    /\ Answered
    /\ done.outcome = "forwarded"
    /\ done.body = "tools/call"
    /\ done.fetches = 1
    /\ done.result.returned
    /\ ~done.delivered
    /\ contexts[done.ctx].closed
    /\ transports[done.sid] = NoContext

\* The contexts that hold a session, closed or not.
WithSession == {k \in ContextIds : contexts[k].made /\ contexts[k].sessionId # NoSessionId}

C25_Idempotent ==
    \A k \in WithSession :
        LET once == onclose(transports, contexts[k]) IN
        /\ once[contexts[k].sessionId] = NoContext
        /\ \A x \in SessionIds : x # contexts[k].sessionId => once[x] = transports[x]
        /\ onclose(once, contexts[k]) = once
        /\ contexts[k].closed => once = transports

C25_NeverBack ==
    \A k \in WithSession : contexts[k].closed => transports[contexts[k].sessionId] = NoContext

\* C25: the close handler of a session removes its entry and no other, doing
\* it again changes nothing, and an entry that was removed is never in the
\* store again: a session is removed by one event, once.
C25_RemovedOnce == C25_Idempotent /\ C25_NeverBack

C25_Witness ==
    \E k \in WithSession, j \in WithSession :
        /\ contexts[k].closed
        /\ ~contexts[j].closed
        /\ transports[contexts[j].sessionId] = j
        /\ onclose(transports, contexts[k]) = transports

\* C26: a session serves one client: every request forwarded to a session's
\* context, and every invocation running on it, comes from the peer whose
\* handshake made that context.
C26_OneClientPerSession ==
    /\ (Answered /\ done.outcome = "forwarded" /\ done.ctx # NoContext) =>
          wire.last.peer = wire.owner[done.ctx].peer
    /\ \A c \in Clients :
          inflight[c].pc = "upstream" =>
              wire.slot[c].peer = wire.owner[inflight[c].ctx].peer

\* The exchange is the answer to a handshake that succeeded.
Initialized(x) == x.client # 0 /\ x.reply = "initialized"

\* A request with this method and body that carries identifier sid is
\* forwarded to context k.
Accepted(sid, body, k) ==
    /\ Lookup(transports, sid) = k
    /\ Route(Lookup(transports, sid) # NoContext, sid, "POST", body) = "forward"

C28_FaultTerminates ==
    (Answered /\ done.outcome = "InternalError") =>
        /\ phase = "exited"
        /\ done.status = 0

\* The step is the arrival of a request beyond the documented limit.
BeyondLimit == wire'.served # wire.served /\ wire'.served > RateLimitMax

\* C29: a request beyond the 100 requests of one peer in a window is answered
\* with an error; it is not forwarded to a session and it makes none.
C29_RateLimited ==
    [][BeyondLimit =>
          /\ Answered'
          /\ done'.outcome \notin {"forwarded", "SessionMissing", "SessionInvalid"}
          /\ done'.ctx = NoContext
          /\ UNCHANGED <<inflight, contexts>>]_vars

\* The step answers a handshake request that carried a live identifier.
HandshakeOnLive ==
    /\ AnsweredOnArrival
    /\ done'.path = "/mcp"
    /\ IsHandshake(done'.method, done'.body)
    /\ Lookup(transports, done'.sid) # NoContext

C30_Forwarded ==
    HandshakeOnLive =>
        /\ done'.outcome \in {"forwarded", "InternalError"}
        /\ done'.ctx = Lookup(transports, done'.sid)
        /\ done'.created = NoContext
        /\ done'.session = NoSessionId
        /\ done'.outcome = "forwarded" => done'.reply = "already-initialized"
        /\ UNCHANGED <<transports, contexts, uuids, inflight>>

C30_NoContextMade ==
    \A c \in Clients :
        (inflight[c].pc = "idle" /\ inflight'[c].pc = "connecting") =>
            Lookup(transports, inflight'[c].sid) = NoContext

\* C30: an initialize request that carries the identifier of a live session
\* is forwarded to the context of that session, which answers it; no
\* transport is made for it and the store, the contexts and the identifiers
\* handed out stay as they are.
C30_HandshakeOnLiveSession == [][C30_Forwarded /\ C30_NoContextMade]_vars

C30_Witness ==
    /\ Answered
    /\ IsHandshake(done.method, done.body)
    /\ done.reply = "already-initialized"
    /\ transports[done.sid] = done.ctx
    /\ \E k \in ContextIds : ~contexts[k].made

C31_Outcome ==
    (Answered /\ done.path = "/mcp") =>
        \/ /\ done.outcome = "SessionInvalid"
           /\ done.status = 400
           /\ done.code = -32000
           /\ done.ctx = NoContext
        \/ /\ done.outcome = "SessionMissing"
           /\ done.status = 400
           /\ done.code = -32000
           /\ done.ctx = NoContext
        \/ /\ done.outcome = "forwarded"
           /\ done.ctx # NoContext
           /\ done.reply # ""
        \/ /\ done.outcome = "InternalError"
           /\ done.status = 500
           /\ done.code = -32603
           /\ done.message = "Internal error"
           /\ done.ctx # NoContext
           /\ phase \in {"serving", "closing", "cleared"}

C31_Contained ==
    (~Answered /\ Answered' /\ done'.outcome = "InternalError") =>
        /\ UNCHANGED <<phase, transports, contexts, uuids>>
        /\ \A d \in Clients : d # done'.client => inflight'[d] = inflight[d]

HeldByHandler(k) == \E c \in Clients : inflight[c].pc = "connecting" /\ inflight[c].ctx = k

\* C32: no context is orphaned: once the handler that made a context for an
\* initialize request has answered, the context is in the store or closed,
\* also when connecting it or handling the request failed.
C32_NoOrphan ==
    \A k \in ContextIds :
        (contexts[k].made /\ ~HeldByHandler(k)) =>
            \/ contexts[k].closed
            \/ /\ contexts[k].sessionId # NoSessionId
               /\ transports[contexts[k].sessionId] = k

C33_AllClosed ==
    phase = "crashed" =>
        /\ Live = {}
        /\ \A k \in WithSession : contexts[k].closed

C33_ThroughCleared ==
    (phase' # phase /\ phase' \in {"exited", "crashed"}) => phase = "cleared"

\* C33: a close that fails during shutdown does not stop it: the sessions
\* that remain are closed, and the process ends only after the store was
\* cleared and the HTTP server closed.
C33_ShutdownSurvivesCloseFailure == [] C33_AllClosed /\ [][C33_ThroughCleared]_vars

\* getStatus() of the client the server holds.
StatusNow == getStatus(apiClient.baseUrl, apiClient.apiKey)

\* A status that reports a configured client.
ReportsConfigured(status) == status.configured /\ status.hasApiKey

C34_Configured ==
    /\ Running => ReportsConfigured(StatusNow)
    /\ Probed(done) =>
          /\ ReportsConfigured(done.apiStatus)
          /\ done.apiStatus = StatusNow
    /\ (Answered /\ done.outcome = "forwarded" /\ done.tool = "test_connection"
            /\ done.result.returned /\ ~done.result.isError) =>
          /\ done.result.text.extras.present
          /\ ReportsConfigured(done.result.text.extras.apiClient)

C34_Unchanged == apiClient' = apiClient

\* C34: while the server handles requests the upstream client is the one
\* made at startup and its status is configured with an API key, and that is
\* what the health probe and a successful test_connection report.
C34_ClientConfigured == [] C34_Configured /\ [][C34_Unchanged]_vars

C34_Witness ==
    /\ Probed(done)
    /\ ReportsConfigured(done.apiStatus)
    /\ done.apiStatus.baseUrl = DefaultBaseUrl
    /\ Live # {}

\* A result without the time it was made at.
Untimed(result) == [result EXCEPT !.text.timestamp = ""]

\* What the stdio server does with the invocation of the completed exchange.
StdioOfDone == StdioCallTool(done.tool, done.args, done.upstream, StatusNow)

C35_SameResult ==
    Invoked =>
        /\ StdioOfDone.operations = done.operations
        /\ StdioOfDone.fetches = done.fetches
        /\ StdioOfDone.endpoint = done.endpoint
        /\ Untimed(StdioOfDone.result) = Untimed(done.result)

C35_SameCall ==
    \A c \in Clients :
        inflight[c].pc = "upstream" =>
            \A r \in Replies :
                LET s == StdioCallTool(inflight[c].tool, inflight[c].args, r, StatusNow) IN
                /\ s.fetches = inflight[c].fetches
                /\ s.endpoint = inflight[c].endpoint

C35_SameList == \A k \in ContextIds : ListToolsHandler(k) = StdioListTools

\* C35: for every tool name, arguments mapping and upstream outcome the
\* dispatcher of the HTTP server and that of the stdio server call the same
\* operation, issue the same request or none and return the same result up
\* to the timestamp, and both answer discovery with the same descriptors.
C35_DispatchersEquivalent == C35_SameResult /\ C35_SameCall /\ C35_SameList

C35_Witness ==
    /\ Invoked
    /\ done.fetches = 1
    /\ done.result.isError
    /\ StdioOfDone.result # done.result
    /\ Untimed(StdioOfDone.result) = Untimed(done.result)

====
